---- MODULE Spec2Model ----
(***************************************************************************)
(* Model of the web-geese simulation store (src/src/store/                 *)
(* simulationStore.ts) and of its tick driver.                             *)
(*                                                                         *)
(* Fixed-point units.  The store works on JavaScript numbers; the model    *)
(* keeps them as integers in these units:                                  *)
(*   positions and distances   hundredths of an arena unit (49 -> 4900)    *)
(*   hunger                    hundredths of a point (100 -> 10000)        *)
(*   idleAnimation             tenths of a cycle                           *)
(*   vision, speed, intelligence, gameTime, store speed   units            *)
(*   a Math.random() draw      tenths (r = d / 10, d \in 0..9)             *)
(* With integral store speeds every product and sum of simulate is exact   *)
(* in these units; only the distance and the normalised direction of a     *)
(* movement step are rounded (towards zero, to a hundredth of a unit and   *)
(* to a thousandth).                                                       *)
(***************************************************************************)
EXTENDS Integers, Sequences, FiniteSets, TLC

VARIABLES creatures, food, environment, gameTime, isPaused, speed,
          nextId, ticks, skipped

\* SimulationProvider's frame loop: the callbacks requested for the next
\* animation frame (each with the handle requestAnimationFrame returned and
\* the isPaused its closure holds), the callbacks of the frame in progress
\* that have not run yet, animationRef.current (0: undefined), the values of
\* isPaused and speed the effect last ran with, the number of handles handed
\* out, and the number of simulate invocations made by the callbacks of the
\* frame in progress (or of the last one).
VARIABLES pending, running, animationRef, effectDeps, handles, frameCalls

\* nextId, ticks and skipped are bookkeeping of the model: the identifier
\* generateId() returns next, the number of simulate calls that ran, and
\* whether the last operation was a simulate call that returned at the pause
\* check.
driverVars == <<pending, running, animationRef, effectDeps, handles,
                frameCalls>>

vars == <<creatures, food, environment, gameTime, isPaused, speed,
          nextId, ticks, skipped, driverVars>>

store == <<creatures, food, environment, gameTime, isPaused, speed>>

----------------------------------------------------------------------------
(* Bounds of the exploration *)

MaxCreatures == 4
MaxFood == 2
MaxIds == 4
MaxTicks == 5
MaxHandles == 8

(* Program constants *)

wallBoundary == 4900
foodWallBoundary == 45
RespawnDelay == 1500
breedingDuration == 3000
EatingDuration == 2000
DefaultBreedingCooldown == 10000
InitialSpeed == 1
ArrivalDistance == 50
PartnerReach == 500

(* Values setSpeed is called with, and the draws of Math.random(), in      *)
(* tenths, that the exploration takes at each call site.                   *)

SpeedSet == {1000, 3000}
AnySpeedSet == {-10000, 0, 3000}
BreedingSpeedSet == {130, 3000, 10000}
DriverSpeedSet == {1000}
CooldownSpeedSet == {3000, 10000}
WallSpeedSet == {130}
ArrivalSpeedSet == {13, 5500}
StarveSpeedSet == {2000}
RandChance == {0, 5}
RandSpawnX == {0}
RandSpawnZ == {5}
RandSpawnVision == {0}
RandSpawnHunger == {0}
RandSpawnSpeed == {0}
RandSpawnIntelligence == {0}
RandWanderX == {0}
RandWanderZ == {5}
RandBabyX == {0}
RandBabyZ == {5}
RandBabyVision == {9}
RandBabyHunger == {0}
RandBabySpeed == {5}
RandBabyIntelligence == {5}
RandFoodX == {4}
RandFoodZ == {5}

\* The values generateId() is explored to re-draw.
IdDraws == {1}

----------------------------------------------------------------------------
(* Arithmetic helpers *)

Abs(x) == IF x < 0 THEN -x ELSE x

Max(a, b) == IF a >= b THEN a ELSE b

Min(a, b) == IF a <= b THEN a ELSE b

\* Quotient rounded towards zero (d > 0).
TruncDiv(n, d) == IF n >= 0 THEN n \div d ELSE -((-n) \div d)

\* The JavaScript remainder n % d: the sign of the dividend (d > 0).
JsRem(n, d) == IF n >= 0 THEN n % d ELSE -((-n) % d)

\* Math.floor(n / d) for d > 0.
FloorDiv(n, d) == n \div d

RECURSIVE SqrtSearch(_, _, _)
SqrtSearch(n, lo, hi) ==
  IF lo >= hi THEN lo
  ELSE LET mid == (lo + hi + 1) \div 2
       IN  IF mid * mid <= n THEN SqrtSearch(n, mid, hi)
           ELSE SqrtSearch(n, lo, mid - 1)

\* Math.sqrt to the hundredth of a unit, for n < 2^30.
Sqrt(n) == SqrtSearch(n, 0, 32767)

----------------------------------------------------------------------------
(* Data *)

StateNames == {"hungry", "full", "searching", "eating", "breeding", "dead"}

\* targetPosition?: Vector3 -- undefined is the empty sequence.
NoTarget == << >>

Target(x, z) == << [x |-> x, z |-> z] >>

\* targetFoodId?: string -- undefined is 0; generated ids are positive.
NoFood == 0

timeOfDayMap == << "morning", "afternoon", "evening", "night" >>

initialState ==
  [ creatures   |-> << >>,
    food        |-> << >>,
    environment |-> [lightLevel |-> 80, timeOfDay |-> "morning"],
    gameTime    |-> 0,
    isPaused    |-> FALSE,
    speed       |-> InitialSpeed ]

\* (Math.random() - 0.5) * mult, in hundredths, for the draw d (tenths).
Centered(d, mult) == (d - 5) * mult * 10

\* base + Math.random() * mult in units, for the draw d (tenths); every
\* mult of the store is a multiple of 10.
Scaled(base, d, mult) == base + (d * mult) \div 10

\* Math.max(-wallBoundary, Math.min(wallBoundary, v))
ClampWall(v) == Max(-wallBoundary, Min(wallBoundary, v))

\* { ...c, ...updates }
Merge(c, updates) ==
  [f \in DOMAIN c |-> IF f \in DOMAIN updates THEN updates[f] ELSE c[f]]

\* updateCreature / updateFood on a list: every element with that id.
UpdateById(list, id, updates) ==
  [k \in DOMAIN list |->
     IF list[k].id = id THEN Merge(list[k], updates) ELSE list[k]]

\* A variant of RemoveById that drops the head of the list when no
\* element has the identifier.
RemoveByIdOrHead(list, id) ==
  IF \E k \in DOMAIN list : list[k].id = id
  THEN SelectSeq(list, LAMBDA e : e.id # id)
  ELSE IF list = << >> THEN list ELSE Tail(list)

\* removeCreature / removeFood on a list: filter(e => e.id !== id).
RemoveById(list, id) ==
  SelectSeq(list, LAMBDA e : e.id # id)

\* The working store of one simulate call: what get() returns at a point
\* of the call, as far as the call itself writes it.
updateCreature(st, id, updates) ==
  [st EXCEPT !.creatures = UpdateById(st.creatures, id, updates)]

updateFood(st, id, updates) ==
  [st EXCEPT !.food = UpdateById(st.food, id, updates)]

\* A variant of addCreatureTo that puts the new creature at the head of
\* the list.
addCreatureToFront(st, creature) ==
  [st EXCEPT !.creatures = <<Merge(creature, [id |-> st.nextId])>> \o st.creatures,
             !.nextId = st.nextId + 1]

\* generateId() returns st.nextId; successive calls count up, so that the
\* identifiers are fresh unless the action GenerateIdDraw, which stands for
\* Math.random() in generateId, re-draws the next one.
addCreatureTo(st, creature) ==
  [st EXCEPT !.creatures = Append(st.creatures, Merge(creature, [id |-> st.nextId])),
             !.nextId = st.nextId + 1]

addFoodTo(st, f) ==
  [st EXCEPT !.food = Append(st.food, Merge(f, [id |-> st.nextId])),
             !.nextId = st.nextId + 1]

----------------------------------------------------------------------------
(* simulate: the per-creature pass.                                        *)
(* snap is `state`, the store read once at the start of the call; st is    *)
(* the store as the call's own updates have left it so far.  The locals    *)
(* of the forEach body are a record L: st, newState, tp (the local         *)
(* newTargetPosition) and mv (the local isMoving).  A step that draws      *)
(* Math.random() yields the set of its possible outcomes.                  *)

\* dx <= visionRange && dz <= visionRange, visionRange = 5 * (vision / 100)
InVision(c, p) ==
  /\ Abs(p.x - c.position.x) <= 5 * c.vision
  /\ Abs(p.z - c.position.z) <= 5 * c.vision

nearbyFood(snap, c) ==
  SelectSeq(snap.food, LAMBDA f : f.isAvailable /\ InVision(c, f.position))

nearbyCreatures(snap, c) ==
  SelectSeq(snap.creatures,
            LAMBDA o : /\ ~(o.id = c.id \/ o.isDead \/ o.state # "full")
                       /\ InVision(c, o.position))

canBreed(snap, c) == snap.gameTime - c.lastBreedingTime > c.breedingCooldown

\* if (Math.random() < pct / 100) { newTargetPosition = ...; isMoving = true }
Wander(L, c, pct, mult) ==
  { IF d * 10 < pct
      THEN [L EXCEPT !.tp = Target(ClampWall(c.position.x + Centered(rx, mult)),
                                   ClampWall(c.position.z + Centered(rz, mult))),
                     !.mv = TRUE]
      ELSE L
    : d \in RandChance, rx \in RandWanderX, rz \in RandWanderZ }

\* A variant of HungryBehaviour whose food scan reads the store as the
\* creatures processed before have left it, instead of the snapshot.
HungryBehaviourLive(snap, c, L) ==
  IF c.hunger < 5000
    THEN LET nb == nearbyFood(L.st, c)
         IN  IF Len(nb) > 0
               THEN LET nearestFood == nb[1]
                        s1 == updateFood(L.st, nearestFood.id,
                                [isAvailable |-> FALSE,
                                 lastEaten |-> snap.gameTime])
                        s2 == updateCreature(s1, c.id,
                                [hunger |-> 10000,
                                 state |-> "full",
                                 lastStateChange |-> snap.gameTime,
                                 targetFoodId |-> NoFood])
                    IN  { [L EXCEPT !.st = s2, !.newState = "full"] }
               ELSE Wander(L, c, 8, 15)
    ELSE Wander(L, c, 6, 12)

HungryBehaviour(snap, c, L) ==
  IF c.hunger < 5000
    THEN LET nb == nearbyFood(snap, c)
         IN  IF Len(nb) > 0
               THEN LET nearestFood == nb[1]
                        s1 == updateFood(L.st, nearestFood.id,
                                [isAvailable |-> FALSE,
                                 lastEaten |-> snap.gameTime])
                        s2 == updateCreature(s1, c.id,
                                [hunger |-> 10000,
                                 state |-> "full",
                                 lastStateChange |-> snap.gameTime,
                                 targetFoodId |-> NoFood])
                    IN  { [L EXCEPT !.st = s2, !.newState = "full"] }
               ELSE Wander(L, c, 8, 15)
    ELSE Wander(L, c, 6, 12)

EatingBehaviour(snap, c, L) ==
  IF c.targetFoodId = NoFood
    THEN { L }
    ELSE LET found == SelectSeq(snap.food, LAMBDA f : f.id = c.targetFoodId)
         IN  IF Len(found) > 0 /\ found[1].isAvailable
               THEN IF snap.gameTime - c.lastStateChange >= EatingDuration
                      THEN LET s1 == updateCreature(L.st, c.id,
                                       [lastStateChange |-> snap.gameTime,
                                        targetFoodId |-> NoFood,
                                        state |-> "full",
                                        hunger |-> 10000])
                               s2 == updateFood(s1, found[1].id,
                                       [isAvailable |-> FALSE,
                                        lastEaten |-> snap.gameTime])
                           IN  { [L EXCEPT !.st = s2, !.newState = "full"] }
                      ELSE { [L EXCEPT !.newState = "eating"] }
               ELSE { [L EXCEPT !.st = updateCreature(L.st, c.id,
                                         [targetFoodId |-> NoFood,
                                          state |-> "hungry"]),
                                !.newState = "hungry"] }

FullBehaviour(snap, c, L) ==
  IF canBreed(snap, c)
    THEN LET nb == nearbyCreatures(snap, c)
         IN  IF Len(nb) > 0
               THEN LET partner == nb[1]
                        upd == [state |-> "breeding",
                                lastStateChange |-> snap.gameTime,
                                isMoving |-> FALSE,
                                targetPosition |-> NoTarget]
                    IN  IF canBreed(snap, partner)
                          THEN { [L EXCEPT
                                    !.st = updateCreature(
                                             updateCreature(L.st, c.id, upd),
                                             partner.id, upd),
                                    !.newState = "breeding",
                                    !.mv = FALSE,
                                    !.tp = NoTarget] }
                          ELSE { L }
               ELSE Wander(L, c, 4, 8)
    ELSE Wander(L, c, 4, 8)

\* The partner looked up again when breeding completes.
breedingPartner(snap, c) ==
  SelectSeq(snap.creatures,
            LAMBDA o : /\ o.id # c.id
                       /\ ~o.isDead
                       /\ o.state = "breeding"
                       /\ Abs(o.position.x - c.position.x) < PartnerReach
                       /\ Abs(o.position.z - c.position.z) < PartnerReach)

\* A variant of babyCreature that inherits without the Math.max / Math.min
\* clamps.
babyCreatureUnclamped(snap, c, rx, rz, rv, rh, rs, ri) ==
  [ id               |-> 0,
    position         |-> [x |-> c.position.x + Centered(rx, 2),
                          z |-> c.position.z + Centered(rz, 2)],
    isMoving         |-> FALSE,
    idleAnimation    |-> 0,
    vision           |-> c.vision + (rv - 5) * 2,
    hunger           |-> 5000 + rh * 200,
    speed            |-> c.speed + (rs - 5) * 2,
    intelligence     |-> c.intelligence + (ri - 5) * 2,
    state            |-> "hungry",
    targetPosition   |-> NoTarget,
    targetFoodId     |-> NoFood,
    lastStateChange  |-> snap.gameTime,
    lastBreedingTime |-> 0,
    breedingCooldown |-> DefaultBreedingCooldown,
    isDead           |-> FALSE ]

babyCreature(snap, c, rx, rz, rv, rh, rs, ri) ==
  [ id               |-> 0,
    position         |-> [x |-> c.position.x + Centered(rx, 2),
                          z |-> c.position.z + Centered(rz, 2)],
    isMoving         |-> FALSE,
    idleAnimation    |-> 0,
    vision           |-> Max(30, Min(90, c.vision + (rv - 5) * 2)),
    hunger           |-> 5000 + rh * 200,
    speed            |-> Max(20, Min(80, c.speed + (rs - 5) * 2)),
    intelligence     |-> Max(10, Min(90, c.intelligence + (ri - 5) * 2)),
    state            |-> "hungry",
    targetPosition   |-> NoTarget,
    targetFoodId     |-> NoFood,
    lastStateChange  |-> snap.gameTime,
    lastBreedingTime |-> 0,
    breedingCooldown |-> DefaultBreedingCooldown,
    isDead           |-> FALSE ]

BreedingBehaviour(snap, c, L) ==
  IF snap.gameTime - c.lastStateChange >= breedingDuration
    THEN LET reset == [state |-> "full",
                       lastStateChange |-> snap.gameTime,
                       lastBreedingTime |-> snap.gameTime,
                       isMoving |-> FALSE,
                       targetPosition |-> NoTarget]
             found == breedingPartner(snap, c)
         IN  { LET s1 == addCreatureTo(L.st,
                           babyCreature(snap, c, rx, rz, rv, rh, rs, ri))
                   s2 == updateCreature(s1, c.id, reset)
                   s3 == IF Len(found) > 0
                           THEN updateCreature(s2, found[1].id, reset)
                           ELSE s2
               IN  [L EXCEPT !.st = s3]
               : rx \in RandBabyX, rz \in RandBabyZ, rv \in RandBabyVision,
                 rh \in RandBabyHunger, rs \in RandBabySpeed,
                 ri \in RandBabyIntelligence }
    ELSE { L }

\* if (newState === 'hungry') ... else if 'eating' ... 'full' ... 'breeding'
Behaviour(snap, c, L) ==
  CASE L.newState = "hungry"   -> HungryBehaviour(snap, c, L)
    [] L.newState = "eating"   -> EatingBehaviour(snap, c, L)
    [] L.newState = "full"     -> FullBehaviour(snap, c, L)
    [] L.newState = "breeding" -> BreedingBehaviour(snap, c, L)
    [] OTHER                   -> { L }

\* A variant of BaseTransition without the full -> hungry branch.
BaseTransitionNoHungry(snap, c, st) ==
  IF c.hunger > 5000 /\ c.state = "hungry"
    THEN [st |-> updateCreature(st, c.id, [lastStateChange |-> snap.gameTime]),
          newState |-> "full", tp |-> c.targetPosition, mv |-> c.isMoving]
    ELSE [st |-> st,
          newState |-> c.state, tp |-> c.targetPosition, mv |-> c.isMoving]

\* State transitions based on hunger.
BaseTransition(snap, c, st) ==
  IF c.hunger > 5000 /\ c.state = "hungry"
    THEN [st |-> updateCreature(st, c.id, [lastStateChange |-> snap.gameTime]),
          newState |-> "full", tp |-> c.targetPosition, mv |-> c.isMoving]
    ELSE IF c.hunger <= 5000 /\ c.state = "full"
      THEN [st |-> updateCreature(st, c.id, [lastStateChange |-> snap.gameTime]),
            newState |-> "hungry", tp |-> c.targetPosition, mv |-> c.isMoving]
      ELSE [st |-> st,
            newState |-> c.state, tp |-> c.targetPosition, mv |-> c.isMoving]

\* A variant of Movement whose arrival branch starts eating whether or not
\* the creature carries a targetFoodId.
MovementEatsOnArrival(snap, c, L, deltaTime) ==
  LET M == [st |-> L.st, newState |-> L.newState, tp |-> L.tp, mv |-> L.mv,
            pos |-> c.position]
  IN
  IF L.tp = NoTarget
    THEN M
    ELSE
      LET dx == L.tp[1].x - c.position.x
          dz == L.tp[1].z - c.position.z
          d2 == dx * dx + dz * dz
      IN
      IF d2 < ArrivalDistance * ArrivalDistance
        THEN [M EXCEPT !.newState = "eating",
                       !.tp = NoTarget,
                       !.mv = FALSE,
                       !.st = updateCreature(L.st, c.id,
                                [lastStateChange |-> snap.gameTime,
                                 state |-> "eating"])]
        ELSE
          LET distance  == Sqrt(d2)
              moveSpeed == c.speed * deltaTime
              moveX     == TruncDiv(TruncDiv(dx * 1000, distance) * moveSpeed, 1000)
              moveZ     == TruncDiv(TruncDiv(dz * 1000, distance) * moveSpeed, 1000)
              proposedX == c.position.x + moveX
              proposedZ == c.position.z + moveZ
              okX == proposedX >= -wallBoundary /\ proposedX <= wallBoundary
              okZ == proposedZ >= -wallBoundary /\ proposedZ <= wallBoundary
          IN  [M EXCEPT
                 !.pos = [x |-> IF okX THEN proposedX ELSE c.position.x,
                          z |-> IF okZ THEN proposedZ ELSE c.position.z],
                 !.tp  = IF okX /\ okZ THEN L.tp ELSE NoTarget,
                 !.mv  = IF okX /\ okZ THEN L.mv ELSE FALSE]

\* Move towards target if we have one; the result adds pos, the local
\* newPosition.
Movement(snap, c, L, deltaTime) ==
  LET M == [st |-> L.st, newState |-> L.newState, tp |-> L.tp, mv |-> L.mv,
            pos |-> c.position]
  IN
  IF L.tp = NoTarget
    THEN M
    ELSE
      LET dx == L.tp[1].x - c.position.x
          dz == L.tp[1].z - c.position.z
          d2 == dx * dx + dz * dz
      IN
      IF d2 < ArrivalDistance * ArrivalDistance
        THEN IF c.targetFoodId # NoFood
               THEN [M EXCEPT !.newState = "eating",
                              !.tp = NoTarget,
                              !.mv = FALSE,
                              !.st = updateCreature(L.st, c.id,
                                       [lastStateChange |-> snap.gameTime,
                                        state |-> "eating"])]
               ELSE [M EXCEPT !.tp = NoTarget, !.mv = FALSE]
        ELSE
          LET distance  == Sqrt(d2)
              moveSpeed == c.speed * deltaTime
              moveX     == TruncDiv(TruncDiv(dx * 1000, distance) * moveSpeed, 1000)
              moveZ     == TruncDiv(TruncDiv(dz * 1000, distance) * moveSpeed, 1000)
              proposedX == c.position.x + moveX
              proposedZ == c.position.z + moveZ
              okX == proposedX >= -wallBoundary /\ proposedX <= wallBoundary
              okZ == proposedZ >= -wallBoundary /\ proposedZ <= wallBoundary
          IN  [M EXCEPT
                 !.pos = [x |-> IF okX THEN proposedX ELSE c.position.x,
                          z |-> IF okZ THEN proposedZ ELSE c.position.z],
                 !.tp  = IF okX /\ okZ THEN L.tp ELSE NoTarget,
                 !.mv  = IF okX /\ okZ THEN L.mv ELSE FALSE]

\* A variant of Commit that keeps the hunger an earlier update of the same
\* call has stored (the 100 written when food is consumed) instead of
\* overwriting it with newHunger.
CommitKeepsFed(c, M, newIdleAnimation, newHunger) ==
  LET stored == SelectSeq(M.st.creatures, LAMBDA o : o.id = c.id)
      kept   == IF Len(stored) > 0 /\ stored[1].hunger > c.hunger
                  THEN stored[1].hunger
                  ELSE newHunger
  IN  updateCreature(M.st, c.id,
        [idleAnimation  |-> newIdleAnimation,
         hunger         |-> kept,
         state          |-> M.newState,
         targetPosition |-> M.tp,
         isMoving       |-> M.mv,
         position       |-> M.pos])

\* The final updateCreature of the forEach body.
Commit(c, M, newIdleAnimation, newHunger) ==
  updateCreature(M.st, c.id,
    [idleAnimation  |-> newIdleAnimation,
     hunger         |-> newHunger,
     state          |-> M.newState,
     targetPosition |-> M.tp,
     isMoving       |-> M.mv,
     position       |-> M.pos])

\* The decay without its clamp at 0: a variant in which hunger that passes
\* below 0 is never === 0.
DecayedHungerUnclamped(c, deltaTime) == c.hunger - deltaTime

\* Math.max(0, creature.hunger - deltaTime * 0.01)
DecayedHunger(c, deltaTime) == Max(0, c.hunger - deltaTime)

\* newHunger === 0 && creature.hunger > 0
Starves(c, deltaTime) == DecayedHunger(c, deltaTime) = 0 /\ c.hunger > 0

\* A variant of ProcessCreature without the skip of dead creatures.
ProcessCreatureNoSkip(snap, st, c, deltaTime) ==
  LET newIdleAnimation == JsRem(c.idleAnimation + deltaTime, 10)
      newHunger == DecayedHunger(c, deltaTime)
  IN
  IF Starves(c, deltaTime)
    THEN { updateCreature(st, c.id,
             [isDead |-> TRUE,
              state |-> "dead",
              lastStateChange |-> snap.gameTime]) }
    ELSE { Commit(c, Movement(snap, c, L, deltaTime),
                  newIdleAnimation, newHunger)
           : L \in Behaviour(snap, c, BaseTransition(snap, c, st)) }

\* One call of the forEach body for the snapshot creature c: the set of
\* stores it can leave.
ProcessCreature(snap, st, c, deltaTime) ==
  IF c.isDead
    THEN { st }
    ELSE
      LET newIdleAnimation == JsRem(c.idleAnimation + deltaTime, 10)
          newHunger == DecayedHunger(c, deltaTime)
      IN
      IF Starves(c, deltaTime)
        THEN { updateCreature(st, c.id,
                 [isDead |-> TRUE,
                  state |-> "dead",
                  lastStateChange |-> snap.gameTime]) }
        ELSE { Commit(c, Movement(snap, c, L, deltaTime),
                      newIdleAnimation, newHunger)
               : L \in Behaviour(snap, c, BaseTransition(snap, c, st)) }

RECURSIVE CreaturePass(_, _, _, _)
CreaturePass(snap, sts, i, deltaTime) ==
  IF i > Len(snap.creatures)
    THEN sts
    ELSE CreaturePass(snap,
           UNION { ProcessCreature(snap, s, snap.creatures[i], deltaTime)
                   : s \in sts },
           i + 1, deltaTime)

----------------------------------------------------------------------------
(* simulate: food, environment, and the whole call *)

\* A variant of the respawn test that waits for the item's own respawnTime.
respawnDueOwnTime(snap, f) ==
  ~f.isAvailable /\ snap.gameTime - f.lastEaten > f.respawnTime

\* !food.isAvailable && state.gameTime - food.lastEaten > 1500
respawnDue(snap, f) ==
  ~f.isAvailable /\ snap.gameTime - f.lastEaten > RespawnDelay

RECURSIVE FoodRespawn(_, _, _)
FoodRespawn(snap, st, i) ==
  IF i > Len(snap.food)
    THEN st
    ELSE FoodRespawn(snap,
           IF respawnDue(snap, snap.food[i])
             THEN updateFood(st, snap.food[i].id, [isAvailable |-> TRUE])
             ELSE st,
           i + 1)

newFood(x, z, nutritionValue, respawnTime) ==
  [ id |-> 0, position |-> [x |-> x, z |-> z], isAvailable |-> TRUE,
    nutritionValue |-> nutritionValue, respawnTime |-> respawnTime,
    lastEaten |-> 0 ]

\* if (Math.random() < 0.02) addFood(...): the stores it can leave.  The
\* draw that adds an item is taken only while the list has room.
FoodSpawn(st) ==
  { st : d \in { d \in RandChance : ~(d * 10 < 2) } }
  \cup
  { addFoodTo(st, newFood(Centered(rx, foodWallBoundary * 2),
                          Centered(rz, foodWallBoundary * 2), 40, 1500))
    : d \in { d \in RandChance : d * 10 < 2 /\ Len(st.food) < MaxFood },
      rx \in RandFoodX, rz \in RandFoodZ }

\* Math.floor((state.gameTime / 1000) % 4)
timeSlot(t) == FloorDiv(JsRem(t, 4000), 1000)

environmentAt(t) ==
  [ timeOfDay  |-> IF timeSlot(t) \in 0..3 THEN timeOfDayMap[timeSlot(t) + 1]
                   ELSE "undefined",
    lightLevel |-> IF timeSlot(t) = 0 THEN 80
                   ELSE IF timeSlot(t) = 1 THEN 100
                   ELSE IF timeSlot(t) = 2 THEN 60 ELSE 20 ]

\* The stores an unpaused simulate call can leave.
SimulateOutcomes(snap, deltaTime) ==
  UNION { FoodSpawn(FoodRespawn(snap, s, 1))
          : s \in CreaturePass(snap,
                    { [creatures |-> snap.creatures, food |-> snap.food,
                       nextId |-> snap.nextId] },
                    1, deltaTime) }

----------------------------------------------------------------------------
(* The store's operations *)

Init ==
  /\ creatures = initialState.creatures
  /\ food = initialState.food
  /\ environment = initialState.environment
  /\ gameTime = initialState.gameTime
  /\ isPaused = initialState.isPaused
  /\ speed = initialState.speed
  /\ nextId = 1
  /\ ticks = 0
  /\ skipped = FALSE
  /\ pending = { [handle |-> 1, paused |-> initialState.isPaused] }
  /\ running = << >>
  /\ animationRef = 1
  /\ effectDeps = <<initialState.isPaused, initialState.speed>>
  /\ handles = 1
  /\ frameCalls = 0

\* A variant of simulate without `if (state.isPaused) return`.
SimulateUnguarded ==
  LET deltaTime == 1 * speed
      snap == [creatures |-> creatures, food |-> food,
               gameTime |-> gameTime, nextId |-> nextId]
  IN  /\ skipped' = isPaused
      /\ UNCHANGED driverVars
      /\ ticks < MaxTicks
      /\ ticks' = ticks + 1
      /\ gameTime' = gameTime + deltaTime
      /\ \E st \in SimulateOutcomes(snap, deltaTime) :
           /\ Len(st.creatures) <= MaxCreatures
           /\ creatures' = st.creatures
           /\ food' = st.food
           /\ nextId' = st.nextId
      /\ environment' = environmentAt(snap.gameTime)
      /\ UNCHANGED <<isPaused, speed>>

\* The simulate call as it acts on the store, whoever makes it.
simulateCall ==
  /\ skipped' = isPaused
  /\ IF isPaused
       THEN UNCHANGED <<creatures, food, environment, gameTime, isPaused,
                        speed, nextId, ticks>>
       ELSE LET deltaTime == 1 * speed
                snap == [creatures |-> creatures, food |-> food,
                         gameTime |-> gameTime, nextId |-> nextId]
            IN  /\ ticks < MaxTicks
                /\ ticks' = ticks + 1
                /\ gameTime' = gameTime + deltaTime
                /\ \E st \in SimulateOutcomes(snap, deltaTime) :
                     /\ Len(st.creatures) <= MaxCreatures
                     /\ creatures' = st.creatures
                     /\ food' = st.food
                     /\ nextId' = st.nextId
                /\ environment' = environmentAt(snap.gameTime)
                /\ UNCHANGED <<isPaused, speed>>

\* simulate called directly on the store, outside the frame loop.
Simulate ==
  /\ simulateCall
  /\ UNCHANGED driverVars

spawnedCreature(t, rx, rz, rv, rh, rs, ri) ==
  [ id               |-> 0,
    position         |-> [x |-> Centered(rx, 20), z |-> Centered(rz, 20)],
    isMoving         |-> FALSE,
    idleAnimation    |-> 0,
    vision           |-> Scaled(50, rv, 30),
    hunger           |-> 100 * Scaled(60, rh, 30),
    speed            |-> Scaled(30, rs, 40),
    intelligence     |-> Scaled(20, ri, 60),
    state            |-> "hungry",
    targetPosition   |-> NoTarget,
    targetFoodId     |-> NoFood,
    lastStateChange  |-> t,
    lastBreedingTime |-> 0,
    breedingCooldown |-> DefaultBreedingCooldown,
    isDead           |-> FALSE ]

\* spawnCreature.  It is taken only while the list keeps room for one
\* offspring per spawned creature.
SpawnCreature ==
  /\ 2 * (Len(creatures) + 1) <= MaxCreatures
  /\ \E rx \in RandSpawnX, rz \in RandSpawnZ, rv \in RandSpawnVision,
        rh \in RandSpawnHunger, rs \in RandSpawnSpeed,
        ri \in RandSpawnIntelligence :
       LET st == addCreatureTo([creatures |-> creatures, nextId |-> nextId],
                   spawnedCreature(gameTime, rx, rz, rv, rh, rs, ri))
       IN  creatures' = st.creatures /\ nextId' = st.nextId
  /\ skipped' = FALSE
  /\ UNCHANGED driverVars
  /\ UNCHANGED <<food, environment, gameTime, isPaused, speed, ticks>>

\* A creature as a caller of addCreature may pass it: at the origin, with
\* attributes outside the ranges spawnCreature draws from.
addedCreature(t, hunger, state) ==
  [ id               |-> 0,
    position         |-> [x |-> 0, z |-> 0],
    isMoving         |-> FALSE,
    idleAnimation    |-> 0,
    vision           |-> 85,
    hunger           |-> hunger,
    speed            |-> 25,
    intelligence     |-> 15,
    state            |-> state,
    targetPosition   |-> NoTarget,
    targetFoodId     |-> NoFood,
    lastStateChange  |-> t,
    lastBreedingTime |-> 0,
    breedingCooldown |-> DefaultBreedingCooldown,
    isDead           |-> FALSE ]

\* The creatures addCreature is called with: two that are full, one of
\* them with less hunger left, and one whose hunger is already 0.
AddedCreatures(t) ==
  { addedCreature(t, 10000, "full"),
    addedCreature(t, 6000, "full"),
    addedCreature(t, 0, "hungry") }

\* addCreature.  Like spawnCreature it is taken only while the list keeps
\* room for one offspring per added creature.
AddCreature ==
  /\ 2 * (Len(creatures) + 1) <= MaxCreatures
  /\ \E creature \in AddedCreatures(gameTime) :
       LET st == addCreatureTo([creatures |-> creatures, nextId |-> nextId],
                               creature)
       IN  creatures' = st.creatures /\ nextId' = st.nextId
  /\ skipped' = FALSE
  /\ UNCHANGED driverVars
  /\ UNCHANGED <<food, environment, gameTime, isPaused, speed, ticks>>

\* Creatures for the breeding-start scenarios, as addCreature may be given
\* them: one at the origin with vision 85; one at (4, 0) with vision 30,
\* which lies inside the first one's vision box (half-extent 4.25) while
\* the first lies outside its own (half-extent 1.5); and one at the origin
\* that has just bred, so that it is on cooldown.  They are added once the
\* clock has passed the default cooldown, when a creature that has never
\* bred is eligible.
PairingCreatures(t) ==
  IF t > DefaultBreedingCooldown
    THEN { addedCreature(t, 10000, "full"),
           Merge(addedCreature(t, 10000, "full"),
                 [position |-> [x |-> 400, z |-> 0], vision |-> 30]),
           Merge(addedCreature(t, 10000, "full"), [lastBreedingTime |-> t]) }
    ELSE { }

\* addCreature with a creature of the given set, while the list keeps room
\* for one offspring.
AddCreatureFrom(cs) ==
  /\ Len(creatures) + 1 < MaxCreatures
  /\ \E creature \in cs :
       LET st == addCreatureTo([creatures |-> creatures, nextId |-> nextId],
                               creature)
       IN  creatures' = st.creatures /\ nextId' = st.nextId
  /\ skipped' = FALSE
  /\ UNCHANGED driverVars
  /\ UNCHANGED <<food, environment, gameTime, isPaused, speed, ticks>>

\* An identifier that no food item has: generateId() hands out positive
\* identifiers only.
MissingFoodId == -1

\* Creatures in state eating, as addCreature may be given them: one for
\* each food item of the store, targeting it (the item may be unavailable,
\* consumed by a creature added before), and one targeting an identifier
\* that no food item has.
EatingCreatures(t) ==
  { Merge(addedCreature(t, 4000, "eating"), [targetFoodId |-> food[j].id])
    : j \in DOMAIN food }
  \cup { Merge(addedCreature(t, 4000, "eating"),
               [targetFoodId |-> MissingFoodId]) }

\* A creature on its way to a wander target in the corner region, as
\* addCreature may be given it: at (45, 0) with the target (49, 4), which
\* the idle rule of a full creature can draw from that position.
WallCreatures(t) ==
  { Merge(addedCreature(t, 10000, "full"),
          [position |-> [x |-> 4500, z |-> 0],
           targetPosition |-> Target(4900, 400),
           isMoving |-> TRUE]) }

tulipPositions ==
  << <<3, 4>>, <<4, 3>>, <<2, 5>>, <<-3, 6>>, <<-4, 5>>, <<-2, 4>>,
     <<7, -3>>, <<8, -2>>, <<6, -4>>, <<-7, -5>>, <<-8, -4>>, <<-6, -6>>,
     <<0, 8>>, <<1, 7>>, <<-1, 9>>,
     <<5, 6>>, <<6, 5>>, <<4, 7>>, <<-5, 8>>, <<-6, 7>>, <<-4, 6>>,
     <<9, -1>>, <<10, 0>>, <<8, -2>>, <<-9, -3>>, <<-10, -2>>, <<-8, -4>>,
     <<2, 10>>, <<3, 9>>, <<1, 11>> >>

RECURSIVE addTulips(_, _, _, _)
addTulips(st, i, nutritionValue, respawnTime) ==
  IF i > Len(tulipPositions)
    THEN st
    ELSE addTulips(addFoodTo(st, newFood(100 * tulipPositions[i][1],
                                         100 * tulipPositions[i][2],
                                         nutritionValue, respawnTime)),
                   i + 1, nutritionValue, respawnTime)

\* A variant of initializeFood without `if (state.food.length > 0) return`.
InitializeFoodUnguarded ==
  /\ skipped' = FALSE
  /\ UNCHANGED driverVars
  /\ LET st == addTulips([food |-> food, nextId |-> nextId], 1, 40, 1500)
     IN  food' = st.food /\ nextId' = st.nextId
  /\ UNCHANGED <<creatures, environment, gameTime, isPaused, speed, ticks>>

InitializeFood ==
  /\ skipped' = FALSE
  /\ UNCHANGED driverVars
  /\ IF Len(food) > 0
       THEN UNCHANGED <<food, nextId>>
       ELSE LET st == addTulips([food |-> food, nextId |-> nextId], 1, 40, 1500)
            IN  food' = st.food /\ nextId' = st.nextId
  /\ UNCHANGED <<creatures, environment, gameTime, isPaused, speed, ticks>>

\* addFood as the "Add Food" button of Simulation3D calls it for a tulip
\* (respawnTime 5000, nutritionValue 25), at one of AddFoodPositions.
AddFoodPositions == { <<-1000, -200>> }

AddFood ==
  /\ Len(food) < MaxFood
  /\ \E p \in AddFoodPositions :
       LET st == addFoodTo([food |-> food, nextId |-> nextId],
                           newFood(p[1], p[2], 25, 5000))
       IN  food' = st.food /\ nextId' = st.nextId
  /\ skipped' = FALSE
  /\ UNCHANGED driverVars
  /\ UNCHANGED <<creatures, environment, gameTime, isPaused, speed, ticks>>

\* The identifiers the mutation calls are made with: every identifier
\* handed out so far, held by an entity or not, 0 (never handed out) and
\* the identifier the generator hands out next.
ApiIds == 0..nextId

\* Some creature or food item has the identifier.
Known(id) ==
  \/ \E k \in DOMAIN creatures : creatures[k].id = id
  \/ \E k \in DOMAIN food : food[k].id = id

\* The partial records updateCreature / updateFood are called with.
CreatureUpdates == { [hunger |-> 10000], [isDead |-> TRUE, state |-> "dead"] }

FoodUpdates == { [isAvailable |-> FALSE] }

\* removeCreature(id). Removing an entity is explored only while at most
\* MaxIds identifiers have been handed out; a call with an identifier no
\* entity has is always possible.
removeCreatureCall(id) ==
  /\ Known(id) => nextId <= MaxIds
  /\ creatures' = RemoveById(creatures, id)
  /\ skipped' = FALSE
  /\ UNCHANGED driverVars
  /\ UNCHANGED <<food, environment, gameTime, isPaused, speed, nextId, ticks>>

RemoveCreature == \E id \in ApiIds : removeCreatureCall(id)

\* updateCreature(id, updates).
updateCreatureCall(id, updates) ==
  /\ creatures' = UpdateById(creatures, id, updates)
  /\ skipped' = FALSE
  /\ UNCHANGED driverVars
  /\ UNCHANGED <<food, environment, gameTime, isPaused, speed, nextId, ticks>>

UpdateCreature ==
  \E id \in ApiIds : \E updates \in CreatureUpdates :
    updateCreatureCall(id, updates)

\* removeFood(id).
removeFoodCall(id) ==
  /\ Known(id) => nextId <= MaxIds
  /\ food' = RemoveById(food, id)
  /\ skipped' = FALSE
  /\ UNCHANGED driverVars
  /\ UNCHANGED <<creatures, environment, gameTime, isPaused, speed, nextId,
                 ticks>>

RemoveFood == \E id \in ApiIds : removeFoodCall(id)

\* updateFood(id, updates).
updateFoodCall(id, updates) ==
  /\ food' = UpdateById(food, id, updates)
  /\ skipped' = FALSE
  /\ UNCHANGED driverVars
  /\ UNCHANGED <<creatures, environment, gameTime, isPaused, speed, nextId,
                 ticks>>

UpdateFood ==
  \E id \in ApiIds : \E updates \in FoodUpdates : updateFoodCall(id, updates)

\* generateId() is Math.random().toString(36).substr(2, 9): its result is
\* a draw that does not depend on the identifiers returned before. The
\* action re-draws the identifier the next call returns.
GenerateIdDraw ==
  /\ nextId' \in IdDraws
  /\ skipped' = FALSE
  /\ UNCHANGED driverVars
  /\ UNCHANGED <<creatures, food, environment, gameTime, isPaused, speed,
                 ticks>>

TogglePause ==
  /\ isPaused' = ~isPaused
  /\ skipped' = FALSE
  /\ UNCHANGED driverVars
  /\ UNCHANGED <<creatures, food, environment, gameTime, speed, nextId, ticks>>

SetSpeed(values) ==
  /\ \E v \in values : speed' = v
  /\ skipped' = FALSE
  /\ UNCHANGED driverVars
  /\ UNCHANGED <<creatures, food, environment, gameTime, isPaused, nextId, ticks>>

\* SimulationProvider's frame callback.  The effect that builds it re-runs
\* whenever isPaused changes, so the isPaused it reads is the store's.
animate ==
  IF ~isPaused
    THEN Simulate
    ELSE /\ skipped' = FALSE
         /\ UNCHANGED driverVars
         /\ UNCHANGED <<creatures, food, environment, gameTime, isPaused,
                         speed, nextId, ticks>>

\* requestAnimationFrame(animate) for a closure holding isPaused = paused:
\* the callback list with the request added; the handle is one more than
\* the last handed out.
requestAnimationFrame(list, last, paused) ==
  list \cup { [handle |-> last + 1, paused |-> paused] }

\* cancelAnimationFrame(id)
cancelAnimationFrame(list, id) == { r \in list : r.handle # id }

\* A variant of RunEffect whose cleanup cancels nothing.
RunEffectNoCleanup ==
  /\ effectDeps # <<isPaused, speed>>
  /\ handles < MaxHandles
  /\ pending' = requestAnimationFrame(pending, handles, isPaused)
  /\ animationRef' = handles + 1
  /\ handles' = handles + 1
  /\ effectDeps' = <<isPaused, speed>>
  /\ skipped' = FALSE
  /\ UNCHANGED <<running, frameCalls>>
  /\ UNCHANGED <<creatures, food, environment, gameTime, isPaused, speed,
                 nextId, ticks>>

\* React re-runs the effect because isPaused or speed differs from the
\* values it last ran with: the cleanup of the previous run, then the
\* effect body with a new animate closure.  It runs between two callbacks,
\* never inside one; a cancelled callback of the frame in progress that
\* has not run yet does not run.
RunEffect ==
  /\ effectDeps # <<isPaused, speed>>
  /\ handles < MaxHandles
  /\ LET cleaned == IF animationRef # 0
                      THEN cancelAnimationFrame(pending, animationRef)
                      ELSE pending
     IN  pending' = requestAnimationFrame(cleaned, handles, isPaused)
  /\ running' = IF animationRef # 0
                  THEN SelectSeq(running, LAMBDA r : r.handle # animationRef)
                  ELSE running
  /\ animationRef' = handles + 1
  /\ handles' = handles + 1
  /\ effectDeps' = <<isPaused, speed>>
  /\ skipped' = FALSE
  /\ UNCHANGED frameCalls
  /\ UNCHANGED <<creatures, food, environment, gameTime, isPaused, speed,
                 nextId, ticks>>

\* The callbacks of the set list in the order of their handles.
RECURSIVE inRequestOrder(_)
inRequestOrder(list) ==
  IF list = {}
    THEN << >>
    ELSE LET first == CHOOSE r \in list : \A o \in list : r.handle <= o.handle
         IN  <<first>> \o inRequestOrder(list \ {first})

\* The browser starts an animation frame: the callbacks requested so far
\* are the ones this frame runs; requests made from now on are for the
\* next frame.
beginFrame ==
  /\ running = << >>
  /\ pending # {}
  /\ running' = inRequestOrder(pending)
  /\ pending' = {}
  /\ frameCalls' = 0
  /\ skipped' = FALSE
  /\ UNCHANGED <<animationRef, effectDeps, handles>>
  /\ UNCHANGED <<creatures, food, environment, gameTime, isPaused, speed,
                 nextId, ticks>>

\* The frame in progress runs its next callback, animate: simulate() unless
\* the closure's isPaused is true, then the callback requests itself for
\* the next frame and stores the handle in animationRef.current.
animateCallback ==
  /\ running # << >>
  /\ handles < MaxHandles
  /\ IF ~Head(running).paused
       THEN /\ simulateCall
            /\ frameCalls' = frameCalls + 1
       ELSE /\ skipped' = FALSE
            /\ frameCalls' = frameCalls
            /\ UNCHANGED <<creatures, food, environment, gameTime, isPaused,
                           speed, nextId, ticks>>
  /\ pending' = requestAnimationFrame(pending, handles, Head(running).paused)
  /\ animationRef' = handles + 1
  /\ handles' = handles + 1
  /\ running' = Tail(running)
  /\ UNCHANGED effectDeps

Next ==
  \/ Simulate
  \/ SpawnCreature
  \/ AddFood
  \/ TogglePause
  \/ SetSpeed(SpeedSet)

Spec == Init /\ [][Next]_vars

\* The store driven with any speed value, negative and zero included.
NextAnySpeed ==
  \/ Simulate
  \/ SpawnCreature
  \/ TogglePause
  \/ SetSpeed(AnySpeedSet)

SpecAnySpeed == Init /\ [][NextAnySpeed]_vars

\* The store driven long enough for breeding: the clock passes the
\* breeding cooldown and the breeding duration.
NextBreeding ==
  \/ Simulate
  \/ SpawnCreature
  \/ SetSpeed(BreedingSpeedSet)

SpecBreeding == Init /\ [][NextBreeding]_vars

\* The store under the frame loop: the driver's frames, direct simulate
\* calls, and the pause toggle.
NextDriver ==
  \/ animate
  \/ Simulate
  \/ SpawnCreature
  \/ AddFood
  \/ TogglePause
  \/ SetSpeed(DriverSpeedSet)

SpecDriver == Init /\ [][NextDriver]_vars

\* The store never paused and with positive speeds only.
NextRespawn ==
  \/ Simulate
  \/ SpawnCreature
  \/ AddFood
  \/ SetSpeed(SpeedSet)

SpecRespawn == Init /\ [][NextRespawn]_vars

\* The store seeded by initializeFood, which may be called at any time.
NextSeed ==
  \/ InitializeFood
  \/ Simulate
  \/ SpawnCreature
  \/ AddFood
  \/ SetSpeed(DriverSpeedSet)

SpecSeed == Init /\ [][NextSeed]_vars

\* The store populated through addCreature and run past the breeding
\* cooldown.
NextAddCreature ==
  \/ Simulate
  \/ AddCreature
  \/ SetSpeed(CooldownSpeedSet)

SpecAddCreature == Init /\ [][NextAddCreature]_vars

\* The store under its mutation calls alone: entities are added, updated
\* and removed by id. The four calls by id read nothing but the two lists.
NextApi ==
  \/ SpawnCreature
  \/ AddCreature
  \/ AddFood
  \/ RemoveCreature
  \/ UpdateCreature
  \/ RemoveFood
  \/ UpdateFood

SpecApi == Init /\ [][NextApi]_vars

\* The store with identifiers drawn as generateId() draws them.
NextIds ==
  \/ GenerateIdDraw
  \/ Simulate
  \/ SpawnCreature
  \/ AddFood

SpecIds == Init /\ [][NextIds]_vars

\* The store with creatures placed for the breeding-start scenarios.
NextPairing ==
  \/ Simulate
  \/ AddCreatureFrom(PairingCreatures(gameTime))
  \/ SetSpeed(CooldownSpeedSet)

SpecPairing == Init /\ [][NextPairing]_vars

\* The store with creatures in state eating.
NextEating ==
  \/ Simulate
  \/ AddCreatureFrom(EatingCreatures(gameTime))
  \/ SetSpeed(DriverSpeedSet)

SpecEating == Init /\ [][NextEating]_vars

\* The store with creatures moving next to the east wall.
NextWall ==
  \/ Simulate
  \/ AddCreatureFrom(WallCreatures(gameTime))
  \/ SetSpeed(WallSpeedSet)

SpecWall == Init /\ [][NextWall]_vars

\* The store with spawned creatures that live through whole journeys: at
\* the small speed a wandering creature reaches its target, at the large
\* one the clock passes the breeding cooldown and the breeding duration
\* within a creature's life.
NextArrival ==
  \/ Simulate
  \/ SpawnCreature
  \/ SetSpeed(ArrivalSpeedSet)

SpecArrival == Init /\ [][NextArrival]_vars

\* The store under an unpaused driver whose calls keep coming: simulate is
\* called again and again (weak fairness on the calls), at the initial speed
\* or at the one speed setSpeed is given, which is then constant.
NextStarve ==
  \/ Simulate
  \/ SpawnCreature
  \/ AddFood
  \/ SetSpeed(StarveSpeedSet)

\* The steps of NextStarve that are simulate calls running past the pause
\* check, told by the call counter: no other action changes ticks, and a
\* call is possible whenever the store is unpaused and calls are left.
SimulateRuns == ~isPaused /\ ticks < MaxTicks /\ ticks' = ticks + 1

SpecStarve == Init /\ [][NextStarve]_vars /\ WF_ticks(SimulateRuns)

\* The frame loop of SimulationProvider: animation frames, pause toggles
\* and speed changes, and React re-running the effect after each change.
NextFrames ==
  \/ beginFrame
  \/ animateCallback
  \/ RunEffect
  \/ TogglePause
  \/ SetSpeed(DriverSpeedSet)

SpecFrames == Init /\ [][NextFrames]_vars

----------------------------------------------------------------------------
(* Properties *)

\* A step in which a simulate call ran (it was not stopped by the pause
\* check); gameTime, unprimed, is then state.gameTime, the time the call
\* stamps on what it changes.
Tick == ticks' = ticks + 1

\* `state` as simulate reads it in the current store.
snapNow ==
  [creatures |-> creatures, food |-> food, gameTime |-> gameTime,
   nextId |-> nextId]

\* Creature i is alive and this call's hunger decay does not starve it.
Survives(i) == ~creatures[i].isDead /\ ~Starves(creatures[i], 1 * speed)

\* Creatures i and j are alive in state breeding since the same tick.
BreedingPair(i, j) ==
  /\ i # j
  /\ ~creatures[i].isDead /\ ~creatures[j].isDead
  /\ creatures[i].state = "breeding" /\ creatures[j].state = "breeding"
  /\ creatures[i].lastStateChange = creatures[j].lastStateChange

\* The pair's breeding time is up in the call that starts now.
PairDue(i, j) ==
  /\ BreedingPair(i, j)
  /\ gameTime - creatures[i].lastStateChange >= breedingDuration
  /\ Survives(i) /\ Survives(j)

\* C1 (as claimed): a live creature that starts a simulate call in state
\* hungry with hunger < 50 and an available food item in its vision box
\* ends the call stored with state full and hunger 100, and an item it saw
\* is stored unavailable with lastEaten = the tick's time.
C1_HungryCreatureEatsToFull ==
  [][Tick =>
       \A i \in DOMAIN creatures :
         LET c == creatures[i]
         IN  ( /\ Survives(i)
               /\ c.state = "hungry"
               /\ c.hunger < 5000
               /\ Len(nearbyFood(snapNow, c)) > 0 )
             => /\ creatures'[i].state = "full"
                /\ creatures'[i].hunger = 10000
                /\ \E j \in DOMAIN food :
                     /\ food[j].isAvailable
                     /\ InVision(c, food[j].position)
                     /\ ~food'[j].isAvailable
                     /\ food'[j].lastEaten = gameTime
    ]_vars

\* C2 (as claimed): the simulate call in which a breeding pair's time is up
\* adds exactly one creature to the list.
C2_OneOffspringPerPair ==
  [][(Tick /\ \E i, j \in DOMAIN creatures : i < j /\ PairDue(i, j))
       => Len(creatures') = Len(creatures) + 1
    ]_vars

\* C3 (as claimed): after the simulate call in which a breeding pair's time
\* is up, both parents are stored full, with lastBreedingTime the tick's
\* time, not moving and without a target.
C3_ParentsResetToFull ==
  [][Tick =>
       \A i, j \in DOMAIN creatures :
         PairDue(i, j)
           => /\ creatures'[i].state = "full"
              /\ creatures'[i].lastBreedingTime = gameTime
              /\ ~creatures'[i].isMoving
              /\ creatures'[i].targetPosition = NoTarget
    ]_vars

\* C4 (as claimed): a creature that is dead is stored with state dead at
\* every later point, the end of the tick in which it died included.
C4_DeadStaysDead ==
  \A i \in DOMAIN creatures :
    creatures[i].isDead => creatures[i].state = "dead"

\* C6 (as claimed): every creature's hunger is within [0, 100].
C6_HungerInRange ==
  \A i \in DOMAIN creatures :
    creatures[i].hunger >= 0 /\ creatures[i].hunger <= 10000

\* C7 (as claimed): every creature's x and z are within [-49, 49].
C7_InsideWalls ==
  \A i \in DOMAIN creatures :
    /\ Abs(creatures[i].position.x) <= wallBoundary
    /\ Abs(creatures[i].position.z) <= wallBoundary

\* C8 (as claimed): simulate makes a food item available again only in a
\* tick whose time is more than the item's own respawnTime after lastEaten.
C8_RespawnAfterOwnDelay ==
  [][\A j \in DOMAIN food :
       (~food[j].isAvailable /\ food'[j].isAvailable)
         => gameTime - food[j].lastEaten > food[j].respawnTime
    ]_vars

\* The number of ticks a hunger h lasts under a per-tick decay dec > 0:
\* ceil(h / dec).
TicksToDeath(h, dec) == (h + dec - 1) \div dec

Consumes(i, j) ==
  LET c == creatures[i]
  IN  /\ Survives(i)
      /\ c.state \in {"hungry", "full"}
      /\ c.hunger < 5000
      /\ Len(nearbyFood(snapNow, c)) > 0
      /\ nearbyFood(snapNow, c)[1].id = food[j].id
      /\ creatures'[i].state = "full"
      /\ ~food'[j].isAvailable
      /\ food'[j].lastEaten = gameTime

\* What a step does to the food items that are unavailable: a simulate
\* call whose time is more than 1500 after lastEaten makes the item
\* available, any other simulate call and any other operation leaves the
\* item as it is; and a simulate call with speed > 0 advances the clock.
RespawnStep ==
  /\ \A j \in DOMAIN food :
       ~food[j].isAvailable
         => IF Tick /\ gameTime - food[j].lastEaten > RespawnDelay
              THEN food'[j].isAvailable
              ELSE food'[j] = food[j]
  /\ (Tick /\ speed > 0) => gameTime' > gameTime

\* C9 (amended): an unavailable food item is available after the first
\* simulate call whose time exceeds lastEaten + 1500, and until then no
\* simulate call and no other operation consumes or changes it; a simulate
\* call with speed > 0 moves the clock forward, so under a constant positive
\* speed that call comes after finitely many ticks.  Several creatures may
\* consume the item in the one tick that makes it unavailable.
C9_UnavailableFoodRespawns == [][RespawnStep]_vars

\* A consumed item has come back: it is available with its lastEaten more
\* than 1500 before the last tick's time.
C9_Witness ==
  \E j \in DOMAIN food :
    /\ food[j].isAvailable
    /\ food[j].lastEaten > 0
    /\ gameTime - speed - food[j].lastEaten > RespawnDelay

\* C9 (as claimed): as above, and an item is consumed once only before it
\* is available again: no simulate call has two creatures consume the same
\* item.
C9_ConsumedOnceUntilRespawn ==
  [][ /\ RespawnStep
      /\ Tick =>
           \A j \in DOMAIN food :
             \A i1, i2 \in DOMAIN creatures :
               (Consumes(i1, j) /\ Consumes(i2, j)) => i1 = i2
    ]_vars

C11_GameTimeNeverDecreases ==
  [][ /\ gameTime' >= gameTime
      /\ Tick => gameTime' = gameTime + 1 * speed
      /\ ~Tick => gameTime' = gameTime
    ]_vars

\* C12 (as claimed): after every unpaused simulate call the stored
\* timeOfDay and lightLevel are those of the slot of the stored gameTime.
C12_EnvironmentFollowsClock ==
  [][Tick => environment' = environmentAt(gameTime')]_vars

\* C13: initializeFood called on a store that holds food adds nothing and
\* changes no item; called on an empty food list it leaves exactly the 30
\* items of tulipPositions, in that order, each available and never eaten.
\* A second call in succession therefore leaves those 30 items.
C13_InitializeFoodIdempotent ==
  [][InitializeFood =>
       IF Len(food) > 0
         THEN food' = food
         ELSE /\ Len(food') = 30
              /\ \A j \in 1..30 :
                   /\ food'[j].isAvailable
                   /\ food'[j].lastEaten = 0
                   /\ food'[j].position.x = 100 * tulipPositions[j][1]
                   /\ food'[j].position.z = 100 * tulipPositions[j][2]
    ]_vars

\* The 30 seeded items are in the store, one of them has been eaten, and
\* the last operation was not a simulate call: a store on which a further
\* initializeFood call adds nothing.
C13_Witness ==
  /\ Len(food) = 30
  /\ \E j \in DOMAIN food : ~food[j].isAvailable
  /\ ticks > 0

\* C15: removeCreature, updateCreature, removeFood and updateFood called
\* with an id that no creature and no food item has leave the creature list
\* and the food list, and the rest of the store, as they were; the four
\* calls have no precondition on the id.
C15_UnknownIdIsIgnored ==
  [][\A id \in ApiIds :
       ( /\ ~Known(id)
         /\ \/ removeCreatureCall(id)
            \/ removeFoodCall(id)
            \/ \E updates \in CreatureUpdates : updateCreatureCall(id, updates)
            \/ \E updates \in FoodUpdates : updateFoodCall(id, updates) )
       => /\ creatures' = creatures
          /\ food' = food
          /\ UNCHANGED <<environment, gameTime, isPaused, speed>>
    ]_vars

\* Both lists are non-empty and an identifier handed out earlier is no
\* longer held by any entity: the entity was removed, and the four calls
\* can be made with its stale identifier.
C15_Witness ==
  /\ Len(creatures) >= 1
  /\ Len(food) >= 1
  /\ \E id \in 1..(nextId - 1) : ~Known(id)

\* C16: a creature that is dead when a simulate call starts has every
\* field unchanged by that call: no decay, no movement, no eating, no update
\* as a breeding partner, and isDead stays true.
C16_DeadAtStartUntouched ==
  [][Tick =>
       \A i \in DOMAIN creatures :
         creatures[i].isDead => creatures'[i] = creatures[i]
    ]_vars

\* A dead creature lies within partner reach of a live creature that is
\* breeding and whose last state change is later than the dead one's: a
\* call that started after the death has run the live creature's breeding
\* next to it.
C16_Witness ==
  \E i \in DOMAIN creatures :
    /\ creatures[i].isDead
    /\ \E j \in DOMAIN creatures :
         /\ ~creatures[j].isDead
         /\ creatures[j].state = "breeding"
         /\ creatures[j].lastStateChange > creatures[i].lastStateChange
         /\ Abs(creatures[j].position.x - creatures[i].position.x) < PartnerReach
         /\ Abs(creatures[j].position.z - creatures[i].position.z) < PartnerReach

\* C19 (as claimed): in every state no two creatures share an id and no two
\* food items share an id, and no step changes the id of an entity in the
\* lists.
C19_IdsUniqueAndStable ==
  [][ /\ \A i, j \in DOMAIN creatures' :
           i # j => creatures'[i].id # creatures'[j].id
      /\ \A i, j \in DOMAIN food' : i # j => food'[i].id # food'[j].id
      /\ \A i \in DOMAIN creatures :
           i \in DOMAIN creatures' => creatures'[i].id = creatures[i].id
      /\ \A j \in DOMAIN food :
           j \in DOMAIN food' => food'[j].id = food[j].id
    ]_vars

\* C20: simulate never removes or reorders entities: after a call every
\* creature and every food item is at the index it had before, and what the
\* call adds comes after them; a dead creature stays in the list. (A call
\* made while paused returns before it touches the store.)
C20_SimulateOnlyAppends ==
  [][Tick =>
       /\ Len(creatures') >= Len(creatures)
       /\ \A i \in DOMAIN creatures : creatures'[i].id = creatures[i].id
       /\ Len(food') >= Len(food)
       /\ \A j \in DOMAIN food : food'[j].id = food[j].id
    ]_vars

\* A call has added an offspring after the creatures and a spawned food
\* item is in the food list, while a dead creature is still in the list.
C20_Witness ==
  /\ Len(creatures) >= 3
  /\ Len(food) >= 1
  /\ \E i \in DOMAIN creatures : creatures[i].isDead

\* Creature i is in state breeding and the call that starts now runs the
\* completion of its breeding branch: it adds an offspring.
Completes(i) ==
  /\ Survives(i)
  /\ creatures[i].state = "breeding"
  /\ gameTime - creatures[i].lastStateChange >= breedingDuration

\* v is the parent's value p plus a perturbation of magnitude at most 10,
\* clamped to [lo, hi].
Inherited(v, p, lo, hi) ==
  \E dv \in -10..10 : v = Max(lo, Min(hi, p + dv))

\* C14: every creature a simulate call adds is the offspring of a creature
\* whose breeding completes in that call: its vision is in [30, 90], its
\* speed in [20, 80], its intelligence in [10, 90], each the parent's value
\* plus at most 10 in magnitude, clamped; it is hungry, not dead, with
\* lastBreedingTime 0 and breedingCooldown 10000.
C14_OffspringAttributes ==
  [][Tick =>
       \A k \in DOMAIN creatures' :
         k > Len(creatures) =>
           LET b == creatures'[k]
           IN  /\ b.vision \in 30..90
               /\ b.speed \in 20..80
               /\ b.intelligence \in 10..90
               /\ \E i \in DOMAIN creatures :
                    /\ Completes(i)
                    /\ Inherited(b.vision, creatures[i].vision, 30, 90)
                    /\ Inherited(b.speed, creatures[i].speed, 20, 80)
                    /\ Inherited(b.intelligence, creatures[i].intelligence,
                                 10, 90)
               /\ b.state = "hungry"
               /\ ~b.isDead
               /\ b.lastBreedingTime = 0
               /\ b.breedingCooldown = 10000
    ]_vars

\* An offspring is in the store whose vision the clamp cut to 90: its
\* parent's vision was 85 and the perturbation 8.
C14_Witness ==
  \E k \in DOMAIN creatures :
    /\ creatures[k].vision = 90
    /\ creatures[k].speed = 25
    /\ creatures[k].lastBreedingTime = 0
    /\ \E i \in DOMAIN creatures : i < k /\ creatures[i].vision = 85

\* C17 (as claimed): a creature whose breeding completes, producing an
\* offspring, in a simulate call has its previous completion, recorded in
\* lastBreedingTime, more than breedingCooldown before the call's time.
C17_CooldownBetweenOffspring ==
  [][Tick =>
       \A i \in DOMAIN creatures :
         Completes(i)
           => gameTime - creatures[i].lastBreedingTime
                > creatures[i].breedingCooldown
    ]_vars

\* C18 (as claimed): after an unpaused simulate call with speed > 0 every
\* creature whose stored hunger is 0 is dead.
C18_HungerZeroIsDead ==
  [][(Tick /\ speed > 0) =>
       \A i \in DOMAIN creatures' :
         creatures'[i].hunger = 0 => creatures'[i].isDead
    ]_vars

\* The state the behaviour step of the call that starts now sees for
\* creature i: its stored state after the hunger-driven transition.
BehaviourState(i) ==
  BaseTransition(snapNow, creatures[i], snapNow).newState

\* The creatures the partner scan of creature i finds, in list order.
Candidates(i) == nearbyCreatures(snapNow, creatures[i])

\* Creature i starts breeding in the call that starts now: it survives the
\* decay, is full for the behaviour step and past its cooldown, and the
\* first creature its scan finds is past its cooldown too.
StartsBreeding(i) ==
  /\ Survives(i)
  /\ BehaviourState(i) = "full"
  /\ canBreed(snapNow, creatures[i])
  /\ Len(Candidates(i)) > 0
  /\ canBreed(snapNow, Candidates(i)[1])

\* Creature j is the partner creature i starts breeding with.
PartnerOf(i, j) ==
  /\ StartsBreeding(i)
  /\ creatures[j].id = Candidates(i)[1].id

\* c is stored as having entered breeding at time t.
EnteredBreeding(c, t) ==
  /\ c.state = "breeding"
  /\ c.lastStateChange = t
  /\ ~c.isMoving
  /\ c.targetPosition = NoTarget

\* C21 (as claimed): when creature A starts breeding with partner P in a
\* simulate call, both are stored in state breeding with lastStateChange
\* the call's time, isMoving false and no targetPosition when the call
\* ends, whatever their order in the list. (P is taken to survive the
\* call's hunger decay.)
C21_BothPartnersBreeding ==
  [][Tick =>
       \A i, j \in DOMAIN creatures :
         (PartnerOf(i, j) /\ Survives(j))
           => /\ EnteredBreeding(creatures'[i], gameTime)
              /\ EnteredBreeding(creatures'[j], gameTime)
    ]_vars

\* Food item j is stored as consumed in the call that starts now.
ConsumedNow(j) ==
  /\ food[j].isAvailable
  /\ ~food'[j].isAvailable
  /\ food'[j].lastEaten = gameTime

\* C23 (as claimed): every live creature whose state for the behaviour step
\* is hungry, at any hunger it can have in that state (exactly 50
\* included), consumes a food item in that call whenever an available food
\* item lies in its vision box.
C23_HungryConsumesVisibleFood ==
  [][Tick =>
       \A i \in DOMAIN creatures :
         ( /\ Survives(i)
           /\ BehaviourState(i) = "hungry"
           /\ Len(nearbyFood(snapNow, creatures[i])) > 0 )
         => \E j \in DOMAIN food :
              /\ InVision(creatures[i], food[j].position)
              /\ ConsumedNow(j)
    ]_vars

\* Some other creature starts breeding with creature i as its partner in
\* the call that starts now.
ChosenAsPartner(i) ==
  \E k \in DOMAIN creatures : k # i /\ PartnerOf(k, i)

\* Creature i is stored full with hunger <= 50 and forages in the call that
\* starts now: it is below the foraging gate and food is in its vision box.
Forages(i) ==
  /\ creatures[i].hunger < 5000
  /\ Len(nearbyFood(snapNow, creatures[i])) > 0

C25_ScanUsesSnapshot ==
  [][Tick =>
       \A i \in DOMAIN creatures :
         ( /\ Survives(i)
           /\ BehaviourState(i) = "hungry"
           /\ Forages(i) )
         => /\ \E j \in DOMAIN food :
                 /\ food[j].id = nearbyFood(snapNow, creatures[i])[1].id
                 /\ ConsumedNow(j)
            /\ creatures'[i].lastStateChange = gameTime
            /\ ~ChosenAsPartner(i) => creatures'[i].state = "full"
    ]_vars

\* Two creatures have consumed the same food item in the last call: both
\* are stored full since that call's time with a hunger only a creature
\* that was below the foraging gate can have, and one item alone was eaten
\* at that time.
C25_Witness ==
  \E i, k \in DOMAIN creatures :
    /\ i < k
    /\ \A n \in {i, k} :
         /\ ~creatures[n].isDead
         /\ creatures[n].state = "full"
         /\ creatures[n].lastStateChange = gameTime - speed
         /\ creatures[n].hunger < 5000 - speed
    /\ \E j \in DOMAIN food :
         /\ ~food[j].isAvailable
         /\ food[j].lastEaten = gameTime - speed
         /\ \A m \in DOMAIN food : m # j => food[m].lastEaten # gameTime - speed

\* Creature i is alive and this call's hunger decay starves it.
StarvesNow(i) ==
  ~creatures[i].isDead /\ Starves(creatures[i], 1 * speed)

\* The fields of a creature other than isDead, state and lastStateChange.
FrameFields ==
  {"id", "position", "isMoving", "idleAnimation", "vision", "hunger", "speed",
   "intelligence", "targetPosition", "targetFoodId", "lastBreedingTime",
   "breedingCooldown"}

\* C26 (as claimed): in the call in which a creature starves only its
\* isDead, state and lastStateChange are written: its position,
\* targetPosition, isMoving, idleAnimation and every other field are left as
\* they were; and when every live creature starves in the call, no food is
\* consumed and no offspring is created.
C26_StarvingCreatureIsOnlyMarked ==
  [][Tick =>
       /\ \A i \in DOMAIN creatures :
            StarvesNow(i)
              => /\ creatures'[i].isDead
                 /\ \A f \in FrameFields : creatures'[i][f] = creatures[i][f]
       /\ (\A i \in DOMAIN creatures :
             creatures[i].isDead \/ StarvesNow(i))
            => /\ Len(creatures') = Len(creatures)
               /\ \A j \in DOMAIN food : ~ConsumedNow(j)
    ]_vars

\* The creatures in the vision box of creature i that are alive, full and
\* past their own cooldown, in list order.
EligibleCandidates(i) ==
  SelectSeq(Candidates(i), LAMBDA o : canBreed(snapNow, o))

\* C22 (as claimed): a surviving creature that is full for the behaviour
\* step and past its cooldown, with at least one live, full, cooldown-
\* eligible creature in its vision box, starts breeding in that call with
\* the first such creature in list order: it is stored as having entered
\* breeding at the call's time and that creature's lastStateChange is the
\* call's time.
C22_PairsWithFirstEligible ==
  [][Tick =>
       \A i \in DOMAIN creatures :
         ( /\ Survives(i)
           /\ BehaviourState(i) = "full"
           /\ canBreed(snapNow, creatures[i])
           /\ Len(EligibleCandidates(i)) > 0 )
         => /\ EnteredBreeding(creatures'[i], gameTime)
            /\ \A j \in DOMAIN creatures :
                 creatures[j].id = EligibleCandidates(i)[1].id
                   => creatures'[j].lastStateChange = gameTime
    ]_vars

\* The outcomes of the behaviour step of creature i in the call that starts
\* now: the local newState, target and isMoving.
BehaviourOutcomes(i) ==
  Behaviour(snapNow, creatures[i],
            BaseTransition(snapNow, creatures[i], snapNow))

\* C29 (as claimed): a surviving creature without a target that is full for
\* the behaviour step and does not start breeding can acquire a wander
\* target in that step, inside [-49, 49] on both axes: some outcome of its
\* behaviour step has isMoving true and such a target.
C29_FullCreatureCanWander ==
  \A i \in DOMAIN creatures :
    ( /\ Survives(i)
      /\ BehaviourState(i) = "full"
      /\ ~StartsBreeding(i)
      /\ creatures[i].targetPosition = NoTarget )
    => \E L \in BehaviourOutcomes(i) :
         /\ L.mv
         /\ L.tp # NoTarget
         /\ Abs(L.tp[1].x) <= wallBoundary
         /\ Abs(L.tp[1].z) <= wallBoundary

\* C30 (as claimed): when a creature that entered breeding at its
\* lastStateChange completes, and every creature of the list is alive and
\* survives the call, the proximity lookup finds a creature, and the one it
\* finds entered breeding at the same time.
C30_LookupFindsPartner ==
  [][Tick =>
       \A i \in DOMAIN creatures :
         ( /\ Completes(i)
           /\ creatures[i].lastBreedingTime # creatures[i].lastStateChange
           /\ \A k \in DOMAIN creatures : Survives(k) )
         => LET found == breedingPartner(snapNow, creatures[i])
            IN  /\ Len(found) > 0
                /\ found[1].lastStateChange = creatures[i].lastStateChange
    ]_vars

\* The food items the eating creature i targets.
TargetedFood(i) ==
  SelectSeq(food, LAMBDA f : f.id = creatures[i].targetFoodId)

\* C27 (as claimed): a surviving creature in state eating whose targeted
\* food is available and whose lastStateChange is at least 2000 before the
\* call's time ends the call in state full with hunger 100 and no
\* targetFoodId, and the food is stored unavailable with lastEaten the
\* call's time; if the targeted food is unavailable or missing it ends the
\* call in state hungry with no targetFoodId.
C27_EatingCompletes ==
  [][Tick =>
       \A i \in DOMAIN creatures :
         ( /\ Survives(i)
           /\ creatures[i].state = "eating"
           /\ creatures[i].targetFoodId # NoFood )
         => LET found == TargetedFood(i)
                d == creatures'[i]
            IN  IF Len(found) > 0 /\ found[1].isAvailable
                  THEN gameTime - creatures[i].lastStateChange >= EatingDuration
                         => /\ d.state = "full"
                            /\ d.hunger = 10000
                            /\ d.targetFoodId = NoFood
                            /\ \A j \in DOMAIN food :
                                 food[j].id = found[1].id
                                   => /\ ~food'[j].isAvailable
                                      /\ food'[j].lastEaten = gameTime
                  ELSE /\ d.state = "hungry"
                       /\ d.targetFoodId = NoFood
    ]_vars

\* The position the movement step proposes for creature c heading for the
\* target tp in a call with the given deltaTime.
proposedPosition(c, tp, deltaTime) ==
  LET dx == tp.x - c.position.x
      dz == tp.z - c.position.z
      distance  == Sqrt(dx * dx + dz * dz)
      moveSpeed == c.speed * deltaTime
  IN  [x |-> c.position.x
               + TruncDiv(TruncDiv(dx * 1000, distance) * moveSpeed, 1000),
       z |-> c.position.z
               + TruncDiv(TruncDiv(dz * 1000, distance) * moveSpeed, 1000)]

\* With the locals L of the behaviour step, the movement step of creature c
\* moves (the target is not reached yet) and proposes a position outside
\* [-49, 49] on some axis.
HitsWall(c, L, deltaTime) ==
  /\ L.tp # NoTarget
  /\ LET dx == L.tp[1].x - c.position.x
         dz == L.tp[1].z - c.position.z
     IN  /\ dx * dx + dz * dz >= ArrivalDistance * ArrivalDistance
         /\ LET p == proposedPosition(c, L.tp[1], deltaTime)
            IN  Abs(p.x) > wallBoundary \/ Abs(p.z) > wallBoundary

\* C28 (as claimed): when the movement step of a surviving creature would
\* take its x or z outside [-49, 49], the step leaves it without target and
\* not moving, and with its position unchanged on both axes.
C28_WallStopsMovement ==
  \A i \in DOMAIN creatures :
    Survives(i) =>
      \A L \in BehaviourOutcomes(i) :
        HitsWall(creatures[i], L, 1 * speed)
          => LET M == Movement(snapNow, creatures[i], L, 1 * speed)
             IN  /\ M.tp = NoTarget
                 /\ ~M.mv
                 /\ M.pos = creatures[i].position

\* C31: a creature made by spawnCreature or by breeding and changed only by
\* simulate is stored hungry, full, breeding or dead, never searching and
\* never eating, and it never carries a targetFoodId.
C31_SpawnedNeverEatingOrSearching ==
  \A i \in DOMAIN creatures :
    /\ creatures[i].state \in {"hungry", "full", "breeding", "dead"}
    /\ creatures[i].targetFoodId = NoFood

\* After two calls at the small speed a live spawned creature stands where
\* its first wander target was, with the target cleared by the arrival
\* branch (the wall is far away).
C31_Witness ==
  /\ ticks = 2
  /\ gameTime = 2 * 13
  /\ \E i \in DOMAIN creatures :
       /\ ~creatures[i].isDead
       /\ creatures[i].position # spawnedCreature(0, 0, 5, 0, 0, 0, 0).position
       /\ creatures[i].targetPosition = NoTarget
       /\ ~creatures[i].isMoving

\* Creature k is stored alive with positive hunger.
AliveAndFed(k) ==
  /\ k \in DOMAIN creatures
  /\ ~creatures[k].isDead
  /\ creatures[k].hunger > 0

\* Creature k is stored dead.
StoredDead(k) == k \in DOMAIN creatures /\ creatures[k].isDead

\* The calls left to the exploration are enough for creature k to starve at
\* the current speed.
StarvesInTime(k) ==
  /\ speed > 0
  /\ ticks + TicksToDeath(creatures[k].hunger, 1 * speed) <= MaxTicks

keepsTarget(c) ==
  [st |-> snapNow, newState |-> c.state, tp |-> c.targetPosition,
   mv |-> c.isMoving]

\* Creature c as the movement step of such a call, at the current speed,
\* stores it.
afterMove(c) ==
  LET M == Movement(snapNow, c, keepsTarget(c), 1 * speed)
  IN  [c EXCEPT !.position = M.pos, !.targetPosition = M.tp,
                !.isMoving = M.mv]

\* Creature i is alive with a target, has the hunger to live through two
\* more calls, and two movement steps at the current speed take it away
\* and back to where it is, the target still set: as the step depends only
\* on position, target, creature speed and deltaTime, it repeats.
Oscillates(i) ==
  LET c  == creatures[i]
      c1 == afterMove(c)
      c2 == afterMove(c1)
  IN  /\ ~c.isDead
      /\ c.hunger > 2 * speed
      /\ c.targetPosition # NoTarget
      /\ c1.targetPosition # NoTarget
      /\ c2.targetPosition # NoTarget
      /\ c1.position # c.position
      /\ c2.position = c.position

\* C33 (as claimed): a creature whose target is not replaced never
\* oscillates around it: whatever the speed multiplier and the creature's
\* speed, the movement steps bring it within the arrival distance of the
\* target or into a wall, so no two steps return it to a position it left
\* with the target still set.
C33_TargetIsEventuallyCleared ==
  \A i \in DOMAIN creatures : ~Oscillates(i)

\* The pairs of timeOfDay and lightLevel the four slots of the day have.
DayLight ==
  { <<"morning", 80>>, <<"afternoon", 100>>, <<"evening", 60>>,
    <<"night", 20>> }

\* C34 (as claimed): in every store state whose environment only simulate
\* has written, the initial state included, timeOfDay and lightLevel go
\* together: morning with 80, afternoon with 100, evening with 60, night
\* with 20.
C34_LightMatchesTimeOfDay ==
  <<environment.timeOfDay, environment.lightLevel>> \in DayLight

\* C35: the frame loop keeps exactly one animate callback alive, whatever
\* pause toggles and speed changes re-run the effect: at every moment one
\* callback is either requested for the next frame or waiting to run in the
\* frame in progress, animationRef.current holds its handle, and the
\* callbacks of one frame invoke simulate at most once.
C35_OneFrameLoop ==
  /\ Cardinality(pending) + Len(running) = 1
  /\ \A r \in pending : r.handle = animationRef
  /\ \A k \in DOMAIN running : running[k].handle = animationRef
  /\ frameCalls <= 1

\* The effect has re-run for a pause toggle and a speed change, frames
\* have called simulate, and the latest frame, run with the store paused,
\* made no call.
C35_Witness ==
  /\ effectDeps = <<TRUE, 1000>>
  /\ isPaused
  /\ ticks > 0
  /\ handles > 4
  /\ running = << >>
  /\ frameCalls = 0

====
